---- MODULE Spec2Model ----
(***************************************************************************)
(* Model of server.py: the Flask handlers api_scrape and api_scrape_all,   *)
(* the serialised extraction scrape_catalog_sync / _scrape_catalog with    *)
(* its ordered extraction strategies, the dedup / sort / rank merge step   *)
(* and the transactional write of a snapshot through get_db.               *)
(***************************************************************************)
EXTENDS Integers, Sequences, FiniteSets, TLC

VARIABLES
    pc,        \* per request thread: the place in the handler
    req,       \* per thread: the request being served
    idx,       \* per thread: position of api_scrape_all's for loop in catalogs
    sellers,   \* per thread: the local list `sellers` (raw candidates), while live
    snapshot,  \* per thread: `sellers` after dedup, sort and rank, while live
    sel,       \* per thread: index of the selector the DOM strategy is trying
    trace,     \* per thread: the strategies the extraction in flight has invoked
    exc,       \* per thread: an exception is propagating
    txn,       \* per thread: rows INSERTed on the open connection, uncommitted
    results,   \* per thread: api_scrape_all's `results` dict
    resp,      \* per thread: the JSON response returned
    fetches,   \* per thread: number of scrape_catalog_sync calls of the request
    slept,     \* per thread: time.sleep(2) ran since the last fetch ended
    lock,      \* _lock: the thread holding it, or NoThread
    browser,   \* _browser is not None
    db         \* committed rows of price_snapshots, in insertion order

vars == <<pc, req, idx, sellers, snapshot, sel, trace, exc, txn, results, resp,
          fetches, slept, lock, browser, db>>

Threads == {"t1", "t2"}
NoThread == "none"

(***************************************************************************)
(* Bounds of the model.                                                    *)
(***************************************************************************)
MaxCands == 3      \* longest candidate list handed to the merge step alone
MaxHits == 2       \* most raw hits one strategy finds on a page
MaxBatch == 2      \* most catalogs in one /api/scrape-all request

(***************************************************************************)
(* Strings are sequences of one-character strings, so that lower() and     *)
(* strip() are computed.                                                   *)
(***************************************************************************)
Lower(c) == CASE c = "A" -> "a" [] c = "B" -> "b" [] OTHER -> c

LowerStr(s) == [i \in 1..Len(s) |-> Lower(s[i])]

IsSpace(c) == c = " "

RECURSIVE LStrip(_)
LStrip(s) == IF s # <<>> /\ IsSpace(Head(s)) THEN LStrip(Tail(s)) ELSE s

RECURSIVE RStrip(_)
RStrip(s) ==
    IF s # <<>> /\ IsSpace(s[Len(s)]) THEN RStrip(SubSeq(s, 1, Len(s) - 1)) ELSE s

Strip(s) == RStrip(LStrip(s))

\* A plausible slip: the key is the raw name.
NormKeyRaw(name) == name

\* key = s['name'].lower().strip()
NormKey(name) == Strip(LowerStr(name))

(***************************************************************************)
(* The merge step: lines 334-344 and 375-382.                              *)
(* `seen` is a Python dict: a sequence of entries in key-insertion order;  *)
(* assigning to a key that is present keeps the key's position.            *)
(***************************************************************************)
KeyPos(seen, k) ==
    IF \E i \in 1..Len(seen) : seen[i].key = k
    THEN CHOOSE i \in 1..Len(seen) : seen[i].key = k
    ELSE 0

\* A plausible slip: a replaced key is deleted and inserted again at the end.
SeenPutReinsert(seen, s) ==
    LET k == NormKey(s.name)
        p == KeyPos(seen, k)
    IN  IF p = 0 THEN Append(seen, [key |-> k, val |-> s])
        ELSE IF s.price < seen[p].val.price
             THEN Append(SubSeq(seen, 1, p - 1) \o SubSeq(seen, p + 1, Len(seen)),
                         [key |-> k, val |-> s])
             ELSE seen

\* if key not in seen or s['price'] < seen[key]['price']: seen[key] = s
SeenPut(seen, s) ==
    LET k == NormKey(s.name)
        p == KeyPos(seen, k)
    IN  IF p = 0 THEN Append(seen, [key |-> k, val |-> s])
        ELSE IF s.price < seen[p].val.price
             THEN [seen EXCEPT ![p] = [key |-> k, val |-> s]]
             ELSE seen

RECURSIVE DedupFold(_, _)
DedupFold(seen, rest) ==
    IF rest = <<>> THEN seen
    ELSE DedupFold(SeenPut(seen, Head(rest)), Tail(rest))

SeenValues(seen) == [i \in 1..Len(seen) |-> seen[i].val]

\* sorted() is stable: x goes after every element whose price is <= x's.
RECURSIVE InsertByPrice(_, _)
InsertByPrice(sorted, x) ==
    IF sorted = <<>> THEN <<x>>
    ELSE IF x.price < Head(sorted).price THEN <<x>> \o sorted
    ELSE <<Head(sorted)>> \o InsertByPrice(Tail(sorted), x)

RECURSIVE SortFold(_, _)
SortFold(sorted, rest) ==
    IF rest = <<>> THEN sorted
    ELSE SortFold(InsertByPrice(sorted, Head(rest)), Tail(rest))

\* A plausible slip: reverse=True.
SortedByPriceDesc(seq) ==
    LET asc == SortFold(<<>>, seq)
    IN  [i \in 1..Len(asc) |-> asc[Len(asc) + 1 - i]]

\* sorted(seen.values(), key=lambda x: x['price'])
SortedByPrice(seq) == SortFold(<<>>, seq)

\* for i, s in enumerate(sellers, 1): s['rank'] = i
AssignRank(seq) ==
    [i \in 1..Len(seq) |->
        [name |-> seq[i].name, price |-> seq[i].price,
         itemCode |-> seq[i].itemCode, rank |-> i]]

MergeStep(cands) == AssignRank(SortedByPrice(SeenValues(DedupFold(<<>>, cands))))

(***************************************************************************)
(* The extraction strategies of _scrape_catalog, as functions of what the  *)
(* page holds. A candidate is {name, price, itemCode}; the pages drawn     *)
(* here carry no goods link, so itemCode is ''.                            *)
(***************************************************************************)
DomLo == 50            \* p > 50
DomHi == 500000        \* p < 500000
TextLo == 100          \* 100 < price
TextHi == 100000       \* price < 100000
NameMax == 50          \* n.length < 50
TextNameMax == 30      \* name_part[:30]
NumSelectors == 10     \* const selectors = [ ... ]

UnknownDom == <<"?">>      \* the DOM strategy's default name
UnknownAjax == <<"u">>     \* 'unknown'
SellerWord == <<"s">>      \* the text scan's default name
Digits == <<"1", "2", "3", "4", "5", "6", "7", "8", "9">>

Cand(n, p) == [name |-> n, price |-> p, itemCode |-> ""]

Take(s, n) == SubSeq(s, 1, IF Len(s) < n THEN Len(s) ELSE n)

\* for (const el of priceEls) { ... if (p > 50 && p < 500000) { price = p; break; } }
RECURSIVE FirstPlausible(_)
FirstPlausible(els) ==
    IF els = <<>> THEN 0
    ELSE IF Head(els) > DomLo /\ Head(els) < DomHi THEN Head(els)
    ELSE FirstPlausible(Tail(els))

\* if (!price) { m = allText.match(yen) ...; if (m) price = parseInt(...) }
\* item.yen is the amount of the first yen match, 0 when nothing matches.
ItemPrice(item) ==
    LET p == FirstPlausible(item.els)
    IN  IF p = 0 THEN item.yen ELSE p

\* n = el.textContent.trim(); if (n.length > 0 && n.length < 50) name = n
ItemName(item) ==
    LET n == Strip(item.name)
    IN  IF Len(n) > 0 /\ Len(n) < NameMax THEN n ELSE UnknownDom

\* items.forEach(...): if (price > 0) results.push({name, price, itemCode})
RECURSIVE DomResults(_)
DomResults(items) ==
    IF items = <<>> THEN <<>>
    ELSE (IF ItemPrice(Head(items)) > 0
          THEN <<Cand(ItemName(Head(items)), ItemPrice(Head(items)))>>
          ELSE <<>>) \o DomResults(Tail(items))

\* results.push({ name: m[1], price: parseInt(m[2]), itemCode: '' })
ScriptResults(hits) == [i \in 1..Len(hits) |-> Cand(hits[i].name, hits[i].price)]

\* allPriceEls.forEach((el, idx) => { if (p > 50 && p < 500000) push(...) })
RECURSIVE PriceElResults(_, _)
PriceElResults(els, i) ==
    IF i > Len(els) THEN <<>>
    ELSE (IF els[i].p > DomLo /\ els[i].p < DomHi
          THEN <<Cand(IF Strip(els[i].name) = <<>>
                      THEN SellerWord \o <<Digits[i]>>
                      ELSE Strip(els[i].name),
                      els[i].p)>>
          ELSE <<>>) \o PriceElResults(els, i + 1)

\* for item in items: ... int(price.replace(',', '')) raises on item.bad;
\* the candidates appended before the raise stay in `sellers`.
RECURSIVE AjaxFold(_, _)
AjaxFold(acc, items) ==
    IF items = <<>> THEN [sellers |-> acc, failed |-> FALSE]
    ELSE IF Head(items).bad THEN [sellers |-> acc, failed |-> TRUE]
    ELSE AjaxFold(IF Head(items).price > 0
                  THEN Append(acc, Cand(IF Head(items).name = <<>>
                                        THEN UnknownAjax ELSE Head(items).name,
                                        Head(items).price))
                  ELSE acc,
                  Tail(items))

\* out.kind: "raise" (page.evaluate raised), "null" (no text, or 5 characters or
\* fewer), "malformed" (json.loads raised), "items" (a parsed list)
AjaxOutcome(out) ==
    CASE out.kind = "raise" -> [sellers |-> <<>>, failed |-> TRUE]
      [] out.kind = "null" -> [sellers |-> <<>>, failed |-> FALSE]
      [] out.kind = "malformed" -> [sellers |-> <<>>, failed |-> TRUE]
      [] OTHER -> AjaxFold(<<>>, out.items)

\* sellers.append({'name': groups[..], 'price': int(groups[..]), 'itemCode': ''})
RegexResults(hits) == [i \in 1..Len(hits) |-> Cand(hits[i].name, hits[i].price)]

\* if 100 < price < 100000: sellers.append({'name': name_part[:30], ...})
RECURSIVE TextResults(_)
TextResults(lines) ==
    IF lines = <<>> THEN <<>>
    ELSE (IF TextLo < Head(lines).price /\ Head(lines).price < TextHi
          THEN <<Cand(Take(IF Strip(Head(lines).name) = <<>>
                           THEN SellerWord ELSE Strip(Head(lines).name),
                           TextNameMax),
                      Head(lines).price)>>
          ELSE <<>>) \o TextResults(Tail(lines))

(***************************************************************************)
(* Requests. A catalog of a batch is its catalogNo; 0 stands for a catalog *)
(* whose catalogNo is missing or falsy.                                    *)
(***************************************************************************)
CatalogNos == {1, 2}
NoCatalogNo == 0

SeqsUpTo(S, n) == UNION {[1..k -> S] : k \in 0..n}

ScrapeRequests == {[kind |-> "scrape", catalogs |-> <<c>>] : c \in CatalogNos}

BatchRequests ==
    {[kind |-> "scrape_all", catalogs |-> cs] :
        cs \in SeqsUpTo(CatalogNos \cup {NoCatalogNo}, MaxBatch)}

NoRequest == [kind |-> "none", catalogs |-> <<>>]

Cat(t) == req[t].catalogs[idx[t]]

Put(f, k, v) == [x \in DOMAIN f \cup {k} |-> IF x = k THEN v ELSE f[x]]

Entry(s, n, f) == [s |-> s, n |-> n, failed |-> f]

\* `if not sellers:` (lines 226, 259, 278) and `results.length === 0` (180, 201)
NothingYetIgnored(t) == TRUE

NothingYet(t) == sellers[t] = <<>>

(***************************************************************************)
(* The handlers' entry, and api_scrape_all's loop (lines 362-398).         *)
(***************************************************************************)
Receive(t, r) ==
    /\ pc[t] = "idle"
    /\ req' = [req EXCEPT ![t] = r]
    /\ idx' = [idx EXCEPT ![t] = 1]
    /\ pc' = [pc EXCEPT ![t] = IF r.kind = "scrape" THEN "lock" ELSE "loop"]
    /\ UNCHANGED <<sellers, snapshot, sel, trace, exc, txn, results, resp,
                   fetches, slept, lock, browser, db>>

\* a catalog without catalogNo: continue
LoopSkip(t) ==
    /\ pc[t] = "loop"
    /\ idx[t] <= Len(req[t].catalogs)
    /\ Cat(t) = NoCatalogNo
    /\ idx' = [idx EXCEPT ![t] = @ + 1]
    /\ UNCHANGED <<pc, req, sellers, snapshot, sel, trace, exc, txn, results,
                   resp, fetches, slept, lock, browser, db>>

LoopFetch(t) ==
    /\ pc[t] = "loop"
    /\ idx[t] <= Len(req[t].catalogs)
    /\ Cat(t) # NoCatalogNo
    /\ pc' = [pc EXCEPT ![t] = "lock"]
    /\ UNCHANGED <<req, idx, sellers, snapshot, sel, trace, exc, txn, results,
                   resp, fetches, slept, lock, browser, db>>

\* return jsonify(results)
LoopEnd(t) ==
    /\ pc[t] = "loop"
    /\ idx[t] > Len(req[t].catalogs)
    /\ resp' = [resp EXCEPT ![t] = results[t]]
    /\ pc' = [pc EXCEPT ![t] = "done"]
    /\ UNCHANGED <<req, idx, sellers, snapshot, sel, trace, exc, txn, results,
                   fetches, slept, lock, browser, db>>

(***************************************************************************)
(* scrape_catalog_sync (lines 313-317) and _scrape_catalog (lines 86-310). *)
(***************************************************************************)
\* A plausible slip: the extraction starts without taking _lock.
AcquireNoLock(t) ==
    /\ pc[t] = "lock"
    /\ lock' = t
    /\ fetches' = [fetches EXCEPT ![t] = @ + 1]
    /\ pc' = [pc EXCEPT ![t] = "init"]
    /\ UNCHANGED <<req, idx, sellers, snapshot, sel, trace, exc, txn, results,
                   resp, slept, browser, db>>

\* with _lock:
Acquire(t) ==
    /\ pc[t] = "lock"
    /\ lock = NoThread
    /\ lock' = t
    /\ fetches' = [fetches EXCEPT ![t] = @ + 1]
    /\ pc' = [pc EXCEPT ![t] = "init"]
    /\ UNCHANGED <<req, idx, sellers, snapshot, sel, trace, exc, txn, results,
                   resp, slept, browser, db>>

\* await _init_browser()
InitBrowser(t) ==
    /\ pc[t] = "init"
    /\ browser' = TRUE
    /\ pc' = [pc EXCEPT ![t] = "newpage"]
    /\ UNCHANGED <<req, idx, sellers, snapshot, sel, trace, exc, txn, results,
                   resp, fetches, slept, lock, db>>

\* the launch raises: outside the try, so it leaves _scrape_catalog
InitBrowserFail(t) ==
    /\ pc[t] = "init"
    /\ ~browser
    /\ exc' = [exc EXCEPT ![t] = TRUE]
    /\ pc' = [pc EXCEPT ![t] = "unlock"]
    /\ UNCHANGED <<req, idx, sellers, snapshot, sel, trace, txn, results,
                   resp, fetches, slept, lock, browser, db>>

\* page = await _browser.new_page(...); sellers = []
NewPage(t) ==
    /\ pc[t] = "newpage"
    /\ sellers' = [sellers EXCEPT ![t] = <<>>]
    /\ pc' = [pc EXCEPT ![t] = "goto"]
    /\ UNCHANGED <<req, idx, snapshot, sel, trace, exc, txn, results,
                   resp, fetches, slept, lock, browser, db>>

NewPageFail(t) ==
    /\ pc[t] = "newpage"
    /\ exc' = [exc EXCEPT ![t] = TRUE]
    /\ pc' = [pc EXCEPT ![t] = "unlock"]
    /\ UNCHANGED <<req, idx, sellers, snapshot, sel, trace, txn, results,
                   resp, fetches, slept, lock, browser, db>>

\* await page.goto(...); await page.wait_for_timeout(3000)
Goto(t) ==
    /\ pc[t] = "goto"
    /\ sel' = [sel EXCEPT ![t] = 1]
    /\ pc' = [pc EXCEPT ![t] = "dom"]
    /\ UNCHANGED <<req, idx, sellers, snapshot, trace, exc, txn, results,
                   resp, fetches, slept, lock, browser, db>>

\* the navigation times out or fails: except Exception (line 301)
GotoFail(t) ==
    /\ pc[t] = "goto"
    /\ pc' = [pc EXCEPT ![t] = "except"]
    /\ UNCHANGED <<req, idx, sellers, snapshot, sel, trace, exc, txn, results,
                   resp, fetches, slept, lock, browser, db>>

\* one round of `for (const sel of selectors)`, items being what sel matches
DomSelector(t, items) ==
    /\ pc[t] = "dom"
    /\ LET res == DomResults(items)
       IN  IF res # <<>>
           THEN /\ sellers' = [sellers EXCEPT ![t] = res]
                /\ trace' = [trace EXCEPT ![t] = Append(@, Entry("dom", Len(res), FALSE))]
                /\ pc' = [pc EXCEPT ![t] = "script"]
                /\ sel' = [sel EXCEPT ![t] = 1]
           ELSE IF sel[t] < NumSelectors
           THEN /\ sel' = [sel EXCEPT ![t] = @ + 1]
                /\ UNCHANGED <<sellers, trace, pc>>
           ELSE /\ trace' = [trace EXCEPT ![t] = Append(@, Entry("dom", 0, FALSE))]
                /\ pc' = [pc EXCEPT ![t] = "script"]
                /\ sel' = [sel EXCEPT ![t] = 1]
                /\ UNCHANGED sellers
    /\ UNCHANGED <<req, idx, snapshot, exc, txn, results, resp, fetches, slept,
                   lock, browser, db>>

\* if (results.length === 0) { scan the script tags }
ScriptScan(t, hits) ==
    /\ pc[t] = "script"
    /\ NothingYet(t)
    /\ sellers' = [sellers EXCEPT ![t] = @ \o ScriptResults(hits)]
    /\ trace' = [trace EXCEPT ![t] = Append(@, Entry("script", Len(hits), FALSE))]
    /\ pc' = [pc EXCEPT ![t] = "priceEls"]
    /\ UNCHANGED <<req, idx, snapshot, sel, exc, txn, results, resp, fetches,
                   slept, lock, browser, db>>

ScriptSkip(t) ==
    /\ pc[t] = "script"
    /\ ~NothingYet(t)
    /\ pc' = [pc EXCEPT ![t] = "priceEls"]
    /\ UNCHANGED <<req, idx, sellers, snapshot, sel, trace, exc, txn, results,
                   resp, fetches, slept, lock, browser, db>>

\* if (results.length === 0) { collect the price elements }; return results
PriceElScan(t, els) ==
    /\ pc[t] = "priceEls"
    /\ NothingYet(t)
    /\ sellers' = [sellers EXCEPT ![t] = @ \o PriceElResults(els, 1)]
    /\ trace' = [trace EXCEPT ![t] =
                    Append(@, Entry("priceEls", Len(PriceElResults(els, 1)), FALSE))]
    /\ pc' = [pc EXCEPT ![t] = "ajax"]
    /\ UNCHANGED <<req, idx, snapshot, sel, exc, txn, results, resp, fetches,
                   slept, lock, browser, db>>

PriceElSkip(t) ==
    /\ pc[t] = "priceEls"
    /\ ~NothingYet(t)
    /\ pc' = [pc EXCEPT ![t] = "ajax"]
    /\ UNCHANGED <<req, idx, sellers, snapshot, sel, trace, exc, txn, results,
                   resp, fetches, slept, lock, browser, db>>

\* page.evaluate (line 105) raises while the strategy at pc runs:
\* `sellers` was never assigned, and except Exception (line 301) is entered
EvalFail(t) ==
    /\ pc[t] \in {"dom", "script", "priceEls"}
    /\ pc[t] = "dom" \/ NothingYet(t)
    /\ sellers' = [sellers EXCEPT ![t] = <<>>]
    /\ trace' = [trace EXCEPT ![t] = Append(@, Entry(pc[t], 0, TRUE))]
    /\ sel' = [sel EXCEPT ![t] = 1]
    /\ pc' = [pc EXCEPT ![t] = "except"]
    /\ UNCHANGED <<req, idx, snapshot, exc, txn, results, resp, fetches,
                   slept, lock, browser, db>>

\* if not sellers: try: ... except Exception (lines 226-256)
AjaxRun(t, out) ==
    /\ pc[t] = "ajax"
    /\ NothingYet(t)
    /\ sellers' = [sellers EXCEPT ![t] = @ \o AjaxOutcome(out).sellers]
    /\ trace' = [trace EXCEPT ![t] =
                    Append(@, Entry("ajax", Len(AjaxOutcome(out).sellers),
                                    AjaxOutcome(out).failed))]
    /\ pc' = [pc EXCEPT ![t] = "regex"]
    /\ UNCHANGED <<req, idx, snapshot, sel, exc, txn, results, resp, fetches,
                   slept, lock, browser, db>>

AjaxSkip(t) ==
    /\ pc[t] = "ajax"
    /\ ~NothingYet(t)
    /\ pc' = [pc EXCEPT ![t] = "regex"]
    /\ UNCHANGED <<req, idx, sellers, snapshot, sel, trace, exc, txn, results,
                   resp, fetches, slept, lock, browser, db>>

\* if not sellers: html = await page.content(); the three patterns (259-275)
RegexRun(t, hits) ==
    /\ pc[t] = "regex"
    /\ NothingYet(t)
    /\ sellers' = [sellers EXCEPT ![t] = @ \o RegexResults(hits)]
    /\ trace' = [trace EXCEPT ![t] = Append(@, Entry("regex", Len(hits), FALSE))]
    /\ pc' = [pc EXCEPT ![t] = "text"]
    /\ UNCHANGED <<req, idx, snapshot, sel, exc, txn, results, resp, fetches,
                   slept, lock, browser, db>>

\* page.content() raises
RegexFail(t) ==
    /\ pc[t] = "regex"
    /\ NothingYet(t)
    /\ trace' = [trace EXCEPT ![t] = Append(@, Entry("regex", 0, TRUE))]
    /\ pc' = [pc EXCEPT ![t] = "except"]
    /\ UNCHANGED <<req, idx, sellers, snapshot, sel, exc, txn, results, resp,
                   fetches, slept, lock, browser, db>>

RegexSkip(t) ==
    /\ pc[t] = "regex"
    /\ ~NothingYet(t)
    /\ pc' = [pc EXCEPT ![t] = "text"]
    /\ UNCHANGED <<req, idx, sellers, snapshot, sel, trace, exc, txn, results,
                   resp, fetches, slept, lock, browser, db>>

\* if not sellers: screenshot; scan document.body.innerText (278-296);
\* return sellers (299)
TextRun(t, lines) ==
    /\ pc[t] = "text"
    /\ NothingYet(t)
    /\ sellers' = [sellers EXCEPT ![t] = @ \o TextResults(lines)]
    /\ trace' = [trace EXCEPT ![t] =
                    Append(@, Entry("text", Len(TextResults(lines)), FALSE))]
    /\ pc' = [pc EXCEPT ![t] = "close"]
    /\ UNCHANGED <<req, idx, snapshot, sel, exc, txn, results, resp, fetches,
                   slept, lock, browser, db>>

\* the screenshot, the evaluate or int() raises
TextFail(t) ==
    /\ pc[t] = "text"
    /\ NothingYet(t)
    /\ trace' = [trace EXCEPT ![t] = Append(@, Entry("text", 0, TRUE))]
    /\ pc' = [pc EXCEPT ![t] = "except"]
    /\ UNCHANGED <<req, idx, sellers, snapshot, sel, exc, txn, results, resp,
                   fetches, slept, lock, browser, db>>

TextSkip(t) ==
    /\ pc[t] = "text"
    /\ ~NothingYet(t)
    /\ pc' = [pc EXCEPT ![t] = "close"]
    /\ UNCHANGED <<req, idx, sellers, snapshot, sel, trace, exc, txn, results,
                   resp, fetches, slept, lock, browser, db>>

\* except Exception as e: ... return [] (lines 301-308)
Except(t) ==
    /\ pc[t] = "except"
    /\ sellers' = [sellers EXCEPT ![t] = <<>>]
    /\ pc' = [pc EXCEPT ![t] = "close"]
    /\ UNCHANGED <<req, idx, snapshot, sel, trace, exc, txn, results, resp,
                   fetches, slept, lock, browser, db>>

\* finally: await page.close()
ClosePage(t) ==
    /\ pc[t] = "close"
    /\ pc' = [pc EXCEPT ![t] = "unlock"]
    /\ UNCHANGED <<req, idx, sellers, snapshot, sel, trace, exc, txn, results,
                   resp, fetches, slept, lock, browser, db>>

ClosePageFail(t) ==
    /\ pc[t] = "close"
    /\ exc' = [exc EXCEPT ![t] = TRUE]
    /\ pc' = [pc EXCEPT ![t] = "unlock"]
    /\ UNCHANGED <<req, idx, sellers, snapshot, sel, trace, txn, results,
                   resp, fetches, slept, lock, browser, db>>

\* leaving `with _lock:`, by return or by exception
Unlock(t) ==
    /\ pc[t] = "unlock"
    /\ lock' = NoThread
    /\ slept' = [slept EXCEPT ![t] = FALSE]
    /\ trace' = [trace EXCEPT ![t] = <<>>]
    /\ pc' = [pc EXCEPT ![t] = IF exc[t] THEN "fail" ELSE "merge"]
    /\ UNCHANGED <<req, idx, sellers, snapshot, sel, exc, txn, results,
                   resp, fetches, browser, db>>

(***************************************************************************)
(* After the extraction: merge, persist, respond (lines 334-358, 375-396). *)
(***************************************************************************)
Merge(t) ==
    /\ pc[t] = "merge"
    /\ snapshot' = [snapshot EXCEPT ![t] = MergeStep(sellers[t])]
    /\ pc' = [pc EXCEPT ![t] = "persist"]
    /\ UNCHANGED <<req, idx, sellers, sel, trace, exc, txn, results, resp,
                   fetches, slept, lock, browser, db>>

\* if sellers: is false, nothing is written
PersistSkip(t) ==
    /\ pc[t] = "persist"
    /\ snapshot[t] = <<>>
    /\ pc' = [pc EXCEPT ![t] = "result"]
    /\ UNCHANGED <<req, idx, sellers, snapshot, sel, trace, exc, txn, results,
                   resp, fetches, slept, lock, browser, db>>

\* with get_db() as conn: conn = sqlite3.connect(DB_PATH)
Connect(t) ==
    /\ pc[t] = "persist"
    /\ snapshot[t] # <<>>
    /\ txn' = [txn EXCEPT ![t] = <<>>]
    /\ pc' = [pc EXCEPT ![t] = "insert"]
    /\ UNCHANGED <<req, idx, sellers, snapshot, sel, trace, exc, results,
                   resp, fetches, slept, lock, browser, db>>

ConnectFail(t) ==
    /\ pc[t] = "persist"
    /\ snapshot[t] # <<>>
    /\ exc' = [exc EXCEPT ![t] = TRUE]
    /\ pc' = [pc EXCEPT ![t] = "fail"]
    /\ UNCHANGED <<req, idx, sellers, snapshot, sel, trace, txn, results,
                   resp, fetches, slept, lock, browser, db>>

Row(c, s) == [catalog_no |-> c, seller_name |-> s.name, price |-> s.price,
              rank |-> s.rank]

\* conn.execute("INSERT INTO price_snapshots ...") for the next offer
Insert(t) ==
    /\ pc[t] = "insert"
    /\ Len(txn[t]) < Len(snapshot[t])
    /\ txn' = [txn EXCEPT ![t] = Append(@, Row(Cat(t), snapshot[t][Len(@) + 1]))]
    /\ UNCHANGED <<pc, req, idx, sellers, snapshot, sel, trace, exc, results,
                   resp, fetches, slept, lock, browser, db>>

\* the INSERT raises: the rest of get_db's try is skipped, finally runs
InsertFail(t) ==
    /\ pc[t] = "insert"
    /\ Len(txn[t]) < Len(snapshot[t])
    /\ exc' = [exc EXCEPT ![t] = TRUE]
    /\ pc' = [pc EXCEPT ![t] = "dbclose"]
    /\ UNCHANGED <<req, idx, sellers, snapshot, sel, trace, txn, results,
                   resp, fetches, slept, lock, browser, db>>

\* conn.commit(), reached when the with body ended without an exception
Commit(t) ==
    /\ pc[t] = "insert"
    /\ Len(txn[t]) = Len(snapshot[t])
    /\ db' = db \o txn[t]
    /\ txn' = [txn EXCEPT ![t] = <<>>]
    /\ pc' = [pc EXCEPT ![t] = "dbclose"]
    /\ UNCHANGED <<req, idx, sellers, snapshot, sel, trace, exc, results,
                   resp, fetches, slept, lock, browser>>

CommitFail(t) ==
    /\ pc[t] = "insert"
    /\ Len(txn[t]) = Len(snapshot[t])
    /\ exc' = [exc EXCEPT ![t] = TRUE]
    /\ pc' = [pc EXCEPT ![t] = "dbclose"]
    /\ UNCHANGED <<req, idx, sellers, snapshot, sel, trace, txn, results,
                   resp, fetches, slept, lock, browser, db>>

\* A plausible slip: commit in the finally clause, before close.
DbCloseCommits(t) ==
    /\ pc[t] = "dbclose"
    /\ db' = db \o txn[t]
    /\ txn' = [txn EXCEPT ![t] = <<>>]
    /\ pc' = [pc EXCEPT ![t] = IF exc[t] THEN "fail" ELSE "result"]
    /\ UNCHANGED <<req, idx, sellers, snapshot, sel, trace, exc, results,
                   resp, fetches, slept, lock, browser>>

\* finally: conn.close(); what was not committed is rolled back
DbClose(t) ==
    /\ pc[t] = "dbclose"
    /\ txn' = [txn EXCEPT ![t] = <<>>]
    /\ pc' = [pc EXCEPT ![t] = IF exc[t] THEN "fail" ELSE "result"]
    /\ UNCHANGED <<req, idx, sellers, snapshot, sel, trace, exc, results,
                   resp, fetches, slept, lock, browser, db>>

Success(t) == [success |-> TRUE, sellers |-> snapshot[t]]

Failure == [success |-> FALSE, sellers |-> <<>>]

\* api_scrape: return jsonify({'success': True, ...})
Respond(t) ==
    /\ pc[t] = "result"
    /\ req[t].kind = "scrape"
    /\ resp' = [resp EXCEPT ![t] = Success(t)]
    /\ pc' = [pc EXCEPT ![t] = "done"]
    /\ sellers' = [sellers EXCEPT ![t] = <<>>]
    /\ snapshot' = [snapshot EXCEPT ![t] = <<>>]
    /\ UNCHANGED <<req, idx, sel, trace, exc, txn, results, fetches, slept,
                   lock, browser, db>>

\* api_scrape: except Exception as e: return jsonify({'success': False, ...})
RespondError(t) ==
    /\ pc[t] = "fail"
    /\ req[t].kind = "scrape"
    /\ exc' = [exc EXCEPT ![t] = FALSE]
    /\ resp' = [resp EXCEPT ![t] = Failure]
    /\ pc' = [pc EXCEPT ![t] = "done"]
    /\ sellers' = [sellers EXCEPT ![t] = <<>>]
    /\ snapshot' = [snapshot EXCEPT ![t] = <<>>]
    /\ UNCHANGED <<req, idx, sel, trace, txn, results, fetches, slept,
                   lock, browser, db>>

\* api_scrape_all: results[catalog_no] = {'success': True, 'sellers': sellers}
Record(t) ==
    /\ pc[t] = "result"
    /\ req[t].kind = "scrape_all"
    /\ results' = [results EXCEPT ![t] = Put(@, Cat(t), Success(t))]
    /\ pc' = [pc EXCEPT ![t] = "sleep"]
    /\ sellers' = [sellers EXCEPT ![t] = <<>>]
    /\ snapshot' = [snapshot EXCEPT ![t] = <<>>]
    /\ UNCHANGED <<req, idx, sel, trace, exc, txn, resp, fetches, slept,
                   lock, browser, db>>

\* time.sleep(2), then the next round of the loop
Sleep(t) ==
    /\ pc[t] = "sleep"
    /\ slept' = [slept EXCEPT ![t] = TRUE]
    /\ idx' = [idx EXCEPT ![t] = @ + 1]
    /\ pc' = [pc EXCEPT ![t] = "loop"]
    /\ UNCHANGED <<req, sellers, snapshot, sel, trace, exc, txn, results, resp,
                   fetches, lock, browser, db>>

\* A plausible slip: the except clause sits outside the for loop.
RecordErrorAborts(t) ==
    /\ pc[t] = "fail"
    /\ req[t].kind = "scrape_all"
    /\ exc' = [exc EXCEPT ![t] = FALSE]
    /\ results' = [results EXCEPT ![t] = Put(@, Cat(t), Failure)]
    /\ resp' = [resp EXCEPT ![t] = Put(results[t], Cat(t), Failure)]
    /\ pc' = [pc EXCEPT ![t] = "done"]
    /\ sellers' = [sellers EXCEPT ![t] = <<>>]
    /\ snapshot' = [snapshot EXCEPT ![t] = <<>>]
    /\ UNCHANGED <<req, idx, sel, trace, txn, fetches, slept, lock, browser, db>>

\* api_scrape_all: except Exception as e: results[catalog_no] = {'success': False, ...}
RecordError(t) ==
    /\ pc[t] = "fail"
    /\ req[t].kind = "scrape_all"
    /\ exc' = [exc EXCEPT ![t] = FALSE]
    /\ results' = [results EXCEPT ![t] = Put(@, Cat(t), Failure)]
    /\ idx' = [idx EXCEPT ![t] = @ + 1]
    /\ pc' = [pc EXCEPT ![t] = "loop"]
    /\ sellers' = [sellers EXCEPT ![t] = <<>>]
    /\ snapshot' = [snapshot EXCEPT ![t] = <<>>]
    /\ UNCHANGED <<req, sel, trace, txn, resp, fetches, slept, lock, browser, db>>

(***************************************************************************)
(* What a page may hold, and the specifications.                           *)
(***************************************************************************)
NameA == <<"a">>
NameA2 == <<"A", " ">>
NameB == <<"b">>
NameB2 == <<" ", "B">>

PageNames == {NameA, NameA2, NameB}
PagePrices == {0, 60, 150, 600000}

DomItems ==
    [els : {<<>>, <<600000, 150>>, <<60>>}, yen : {0, 600000},
     name : {<<>>, NameA, NameA2}]
Hits == [name : PageNames, price : PagePrices]
PriceEls == [p : PagePrices, name : {<<>>, NameA2, NameB}]
AjaxItems ==
    [name : {<<>>, NameA, NameB}, price : {0, 60, 150}, bad : {FALSE}]
        \cup {[name |-> NameA, price |-> 0, bad |-> TRUE]}
AjaxOuts(items, n) ==
    {[kind |-> k, items |-> <<>>] : k \in {"raise", "null", "malformed"}}
        \cup {[kind |-> "items", items |-> is] : is \in SeqsUpTo(items, n)}
Lines == [name : {<<>>, NameA2, NameB}, price : {60, 150, 600000}]

Init ==
    /\ pc = [t \in Threads |-> "idle"]
    /\ req = [t \in Threads |-> NoRequest]
    /\ idx = [t \in Threads |-> 1]
    /\ sellers = [t \in Threads |-> <<>>]
    /\ snapshot = [t \in Threads |-> <<>>]
    /\ sel = [t \in Threads |-> 1]
    /\ trace = [t \in Threads |-> <<>>]
    /\ exc = [t \in Threads |-> FALSE]
    /\ txn = [t \in Threads |-> <<>>]
    /\ results = [t \in Threads |-> <<>>]
    /\ resp = [t \in Threads |-> <<>>]
    /\ fetches = [t \in Threads |-> 0]
    /\ slept = [t \in Threads |-> FALSE]
    /\ lock = NoThread
    /\ browser = FALSE
    /\ db = <<>>

\* _scrape_catalog under _lock, on a page drawn from the given sets (a page is
\* drawn only at the place that reads it)
Extraction(t, domItems, hits, priceEls, ajaxOuts, lines) ==
    \/ Acquire(t)
    \/ InitBrowser(t)
    \/ InitBrowserFail(t)
    \/ NewPage(t)
    \/ NewPageFail(t)
    \/ Goto(t)
    \/ GotoFail(t)
    \/ pc[t] = "dom" /\ \E items \in domItems : DomSelector(t, items)
    \/ pc[t] = "script" /\ \E h \in hits : ScriptScan(t, h)
    \/ ScriptSkip(t)
    \/ pc[t] = "priceEls" /\ \E els \in priceEls : PriceElScan(t, els)
    \/ PriceElSkip(t)
    \/ EvalFail(t)
    \/ pc[t] = "ajax" /\ \E out \in ajaxOuts : AjaxRun(t, out)
    \/ AjaxSkip(t)
    \/ pc[t] = "regex" /\ \E h \in hits : RegexRun(t, h)
    \/ RegexFail(t)
    \/ RegexSkip(t)
    \/ pc[t] = "text" /\ \E ls \in lines : TextRun(t, ls)
    \/ TextFail(t)
    \/ TextSkip(t)
    \/ Except(t)
    \/ ClosePage(t)
    \/ ClosePageFail(t)
    \/ Unlock(t)

Persist(t) ==
    \/ Merge(t)
    \/ PersistSkip(t)
    \/ Connect(t)
    \/ ConnectFail(t)
    \/ Insert(t)
    \/ InsertFail(t)
    \/ Commit(t)
    \/ CommitFail(t)
    \/ DbClose(t)

(* One /api/scrape request: every strategy on pages of up to MaxHits hits. *)
NextScrape ==
    \/ \E r \in ScrapeRequests : Receive("t1", r)
    \/ Extraction("t1", SeqsUpTo(DomItems, MaxHits), SeqsUpTo(Hits, MaxHits),
                  SeqsUpTo(PriceEls, MaxHits), AjaxOuts(AjaxItems, MaxHits),
                  SeqsUpTo(Lines, MaxHits))
    \/ Persist("t1")
    \/ Respond("t1")
    \/ RespondError("t1")

SpecScrape == Init /\ [][NextScrape]_vars

(* Concurrent requests, on pages where a strategy finds at most one       *)
(* seller: one thread serves either route, the other serves /api/scrape.  *)
OneDomItem == [els |-> <<150>>, yen |-> 0, name |-> NameA]
OneHit == [name |-> NameA, price |-> 150]
OneAjaxItem == [name |-> NameA, price |-> 150, bad |-> FALSE]

Batch(t) ==
    \/ LoopSkip(t)
    \/ LoopFetch(t)
    \/ LoopEnd(t)
    \/ Record(t)
    \/ Sleep(t)
    \/ RecordError(t)

RequestsOf(t) ==
    IF t = "t1" THEN ScrapeRequests \cup BatchRequests ELSE ScrapeRequests

Next ==
    \E t \in Threads :
        \/ \E r \in RequestsOf(t) : Receive(t, r)
        \/ Extraction(t, {<<>>, <<OneDomItem>>}, {<<>>}, {<<>>},
                      AjaxOuts({OneAjaxItem}, 1), {<<>>, <<OneHit>>})
        \/ Persist(t)
        \/ Respond(t)
        \/ RespondError(t)
        \/ Batch(t)

Spec == Init /\ [][Next]_vars

(* The merge step alone, on any candidate list of up to MaxCands entries  *)
(* that scrape_catalog_sync has just returned.                            *)
MergeCands ==
    [name : {NameA, NameA2, NameB, NameB2}, price : {100, 200},
     itemCode : {"", "G"}]

InitMerge ==
    /\ pc = [t \in Threads |-> IF t = "t1" THEN "merge" ELSE "idle"]
    /\ req = [t \in Threads |->
                IF t = "t1" THEN [kind |-> "scrape", catalogs |-> <<1>>]
                ELSE NoRequest]
    /\ idx = [t \in Threads |-> 1]
    /\ sellers \in {[t \in Threads |-> IF t = "t1" THEN c ELSE <<>>] :
                        c \in SeqsUpTo(MergeCands, MaxCands)}
    /\ snapshot = [t \in Threads |-> <<>>]
    /\ sel = [t \in Threads |-> 1]
    /\ trace = [t \in Threads |-> <<>>]
    /\ exc = [t \in Threads |-> FALSE]
    /\ txn = [t \in Threads |-> <<>>]
    /\ results = [t \in Threads |-> <<>>]
    /\ resp = [t \in Threads |-> <<>>]
    /\ fetches = [t \in Threads |-> IF t = "t1" THEN 1 ELSE 0]
    /\ slept = [t \in Threads |-> FALSE]
    /\ lock = NoThread
    /\ browser = TRUE
    /\ db = <<>>

NextMerge == Merge("t1")

SpecMerge == InitMerge /\ [][NextMerge]_vars

(***************************************************************************)
(* Properties.                                                             *)
(***************************************************************************)
Min(S) == CHOOSE x \in S : \A y \in S : x <= y

\* the normalized name of the claims: lower-cased, then stripped
Normalized(name) == RStrip(LStrip([i \in 1..Len(name) |-> Lower(name[i])]))

NamesOf(seq) == {Normalized(seq[i].name) : i \in 1..Len(seq)}

IndicesOf(seq, k) == {i \in 1..Len(seq) : Normalized(seq[i].name) = k}

MinPriceOf(seq, k) == Min({seq[i].price : i \in IndicesOf(seq, k)})

FirstSeen(seq, k) == Min(IndicesOf(seq, k))

Retained(seq, k) ==
    Min({i \in IndicesOf(seq, k) : seq[i].price = MinPriceOf(seq, k)})

Unranked(o) == [name |-> o.name, price |-> o.price, itemCode |-> o.itemCode]

Merged(t) == pc[t] = "persist"

\* C1: after the merge step the seller list holds exactly one offer per
\* normalized name of the candidate list, and no other; the offer's price is
\* the lowest price among the candidates sharing that normalized name.
C1_DedupCorrect ==
    \A t \in Threads :
        Merged(t) =>
            /\ \A k \in NamesOf(sellers[t]) :
                   Cardinality(IndicesOf(snapshot[t], k)) = 1
            /\ \A i \in 1..Len(snapshot[t]) :
                   /\ Normalized(snapshot[t][i].name) \in NamesOf(sellers[t])
                   /\ snapshot[t][i].price =
                          MinPriceOf(sellers[t], Normalized(snapshot[t][i].name))

\* C1 witness: two candidates with different raw names, one normalized name and
\* different prices were merged into fewer offers.
C1_Witness ==
    \E t \in Threads :
        /\ Merged(t)
        /\ Len(snapshot[t]) < Len(sellers[t])
        /\ \E i, j \in 1..Len(sellers[t]) :
               /\ sellers[t][i].name # sellers[t][j].name
               /\ Normalized(sellers[t][i].name) = Normalized(sellers[t][j].name)
               /\ sellers[t][i].price # sellers[t][j].price

Ranked(m) ==
    \A i \in 1..Len(m) :
        /\ m[i].rank = i
        /\ i < Len(m) => m[i].price <= m[i + 1].price

\* rows of price_snapshots: every run of ranks starts at 1 and goes on by one,
\* within one catalog, with prices that do not decrease
RowsRanked(rows) ==
    \A i \in 1..Len(rows) :
        \/ rows[i].rank = 1
        \/ /\ i > 1
           /\ rows[i].rank = rows[i - 1].rank + 1
           /\ rows[i].catalog_no = rows[i - 1].catalog_no
           /\ rows[i - 1].price <= rows[i].price

\* C2: in every snapshot the merge step produced, and in the rows written to
\* price_snapshots, uncommitted or committed, consecutive offers have
\* price[i] <= price[i+1], and the ranks are 1, 2, 3, ... in that order.
C2_RankMonotone ==
    /\ \A t \in Threads : Ranked(snapshot[t]) /\ RowsRanked(txn[t])
    /\ RowsRanked(db)

\* C2 witness: a snapshot of two offers with different prices, built from
\* candidates found in the other order, is committed.
C2_Witness ==
    \E t \in Threads :
        /\ pc[t] = "dbclose"
        /\ Len(db) = 2
        /\ db[1].price < db[2].price
        /\ Len(sellers[t]) = 2
        /\ sellers[t][1].price > sellers[t][2].price

InFlight ==
    {"init", "newpage", "goto", "dom", "script", "priceEls", "ajax", "regex",
     "text", "except", "close", "unlock"}

\* C3: at most one thread is inside _scrape_catalog at any time; a thread is
\* inside exactly while it holds _lock, so the lock is held from before the
\* navigation until after the page is closed and is free again after every
\* exit, by return or by exception.
C3_MutualExclusion ==
    /\ Cardinality({t \in Threads : pc[t] \in InFlight}) <= 1
    /\ lock \in Threads \cup {NoThread}
    /\ \A t \in Threads : pc[t] \in InFlight <=> lock = t

\* C3 witness: one thread left its extraction by an exception, and another,
\* having waited for the lock, is now inside its own extraction.
C3_Witness ==
    \E t, u \in Threads :
        /\ t # u
        /\ pc[u] = "fail"
        /\ snapshot[u] = <<>>
        /\ pc[t] \in InFlight
        /\ lock = t

StrategyOrder(s) ==
    CASE s = "dom" -> 1 [] s = "script" -> 2 [] s = "priceEls" -> 3
      [] s = "ajax" -> 4 [] s = "regex" -> 5 [] s = "text" -> 6

\* C4: within one extraction the strategies are invoked in the fixed order
\* DOM, embedded script, price elements, AJAX, HTML regex, body text, and
\* once a strategy has produced a candidate no later strategy is invoked.
C4_ShortCircuit ==
    \A t \in Threads :
        \A i, j \in 1..Len(trace[t]) :
            i < j => /\ trace[t][i].n = 0
                     /\ StrategyOrder(trace[t][i].s) < StrategyOrder(trace[t][j].s)

\* C4 witness: three strategies found nothing, the AJAX strategy found a
\* seller, and the extraction reached its end with no further strategy invoked.
C4_Witness ==
    \E t \in Threads :
        /\ pc[t] = "close"
        /\ Len(trace[t]) = 4
        /\ trace[t][4].s = "ajax"
        /\ trace[t][4].n > 0

WithCatalogNo(t) ==
    {i \in 1..Len(req[t].catalogs) : req[t].catalogs[i] # NoCatalogNo}

\* C5: in api_scrape_all a failure of one catalog's extraction or persistence
\* ends that catalog only: after every round of the loop `results` has an entry
\* for each catalog with a catalogNo seen so far, and the response has an entry
\* for each catalog of the batch with a catalogNo, each of them fetched.
C5_BatchIsolation ==
    \A t \in Threads :
        req[t].kind = "scrape_all" =>
            /\ pc[t] = "loop" =>
                   DOMAIN results[t] =
                       {req[t].catalogs[i] : i \in {j \in WithCatalogNo(t) : j < idx[t]}}
            /\ pc[t] = "done" =>
                   /\ DOMAIN resp[t] = {req[t].catalogs[i] : i \in WithCatalogNo(t)}
                   /\ fetches[t] = Cardinality(WithCatalogNo(t))

\* C5 witness: a batch whose first catalog failed and whose second catalog
\* succeeded has been answered.
C5_Witness ==
    \E t \in Threads :
        /\ req[t] = [kind |-> "scrape_all", catalogs |-> <<1, 2>>]
        /\ pc[t] = "done"
        /\ ~resp[t][1].success
        /\ resp[t][2].success

\* C6: every candidate that reaches the merge step and every row written to
\* price_snapshots has a price from 100 to 500000.
C6_PriceInRange ==
    /\ \A t \in Threads :
           pc[t] = "merge" =>
               \A i \in 1..Len(sellers[t]) :
                   sellers[t][i].price >= 100 /\ sellers[t][i].price <= 500000
    /\ \A i \in 1..Len(db) : db[i].price >= 100 /\ db[i].price <= 500000

SnapshotRows(t) == [i \in 1..Len(snapshot[t]) |-> Row(Cat(t), snapshot[t][i])]

\* C7: every step leaves the committed rows of price_snapshots as they were or
\* appends all rows of one thread's non-empty merged snapshot, in order.
C7_AllOrNothing ==
    [][\/ db' = db
       \/ \E t \in Threads :
              /\ snapshot[t] # <<>>
              /\ db' = db \o SnapshotRows(t)]_vars

\* C7 witness: an INSERT failed after some but not all rows of a snapshot were
\* inserted, and the connection is about to be closed.
C7_Witness ==
    \E t \in Threads :
        /\ pc[t] = "dbclose"
        /\ exc[t]
        /\ Len(txn[t]) >= 1
        /\ Len(txn[t]) < Len(snapshot[t])

\* C8: when the extraction returns, every strategy that failed contributed no
\* candidate and, unless it was the last one, the strategy after it in the
\* fallback order was attempted.
C8_FailureContained ==
    \A t \in Threads :
        pc[t] = "close" =>
            \A i \in 1..Len(trace[t]) :
                trace[t][i].failed =>
                    /\ trace[t][i].n = 0
                    /\ trace[t][i].s # "text" =>
                           \E j \in 1..Len(trace[t]) :
                               StrategyOrder(trace[t][j].s) =
                                   StrategyOrder(trace[t][i].s) + 1

\* C9: in api_scrape_all, whenever a catalog's fetch starts after an earlier
\* fetch of the same batch, time.sleep(2) has run since that fetch ended.
C9_PauseBetweenFetches ==
    \A t \in Threads :
        (req[t].kind = "scrape_all" /\ pc[t] = "lock" /\ fetches[t] >= 1)
            => slept[t]

\* C10 as stated: offers with equal prices are in the input order of the
\* candidates that were retained.
C10_TiesInRetainedOrder ==
    \A t \in Threads :
        Merged(t) =>
            \A i, j \in 1..Len(snapshot[t]) :
                (i < j /\ snapshot[t][i].price = snapshot[t][j].price) =>
                    Retained(sellers[t], Normalized(snapshot[t][i].name))
                        < Retained(sellers[t], Normalized(snapshot[t][j].name))

\* C10 amended: the merged snapshot is a function of the candidate list: one
\* offer per normalized name, which is the lowest-priced candidate of that
\* name (the first-seen one on a price tie), in ascending order of price,
\* offers with equal prices in the order in which their normalized names first
\* occur in the candidate list, ranked 1, 2, 3, ...
C10_TiesInFirstSeenOrder ==
    \A t \in Threads :
        Merged(t) =>
            /\ Len(snapshot[t]) = Cardinality(NamesOf(sellers[t]))
            /\ \A i \in 1..Len(snapshot[t]) :
                   /\ snapshot[t][i].rank = i
                   /\ Unranked(snapshot[t][i]) =
                          sellers[t][Retained(sellers[t],
                                              Normalized(snapshot[t][i].name))]
            /\ \A i, j \in 1..Len(snapshot[t]) :
                   i < j =>
                       \/ snapshot[t][i].price < snapshot[t][j].price
                       \/ /\ snapshot[t][i].price = snapshot[t][j].price
                          /\ FirstSeen(sellers[t], Normalized(snapshot[t][i].name))
                                 < FirstSeen(sellers[t], Normalized(snapshot[t][j].name))

\* C10 witness: two offers with equal prices, the earlier of which was
\* retained from a later candidate than the other.
C10_Witness ==
    \E t \in Threads :
        /\ Merged(t)
        /\ \E i, j \in 1..Len(snapshot[t]) :
               /\ i < j
               /\ snapshot[t][i].price = snapshot[t][j].price
               /\ Retained(sellers[t], Normalized(snapshot[t][i].name))
                      > Retained(sellers[t], Normalized(snapshot[t][j].name))

====
